---------------------------- MODULE Spec2Model ----------------------------
(***************************************************************************)
(* A model of the csound-rs binding layer: the callback registry and its   *)
(* extern "C" trampolines (src/src/callbacks.rs, src/src/csound.rs) and    *)
(* the typed channel views (src/src/channels.rs).                          *)
(*                                                                         *)
(* The native engine is the environment.  It holds, per event kind, the    *)
(* trampoline the host installed, and runs it when the native event        *)
(* occurs.  The registry is the boxed CallbackHandler whose address the    *)
(* engine keeps as host data.                                              *)
(***************************************************************************)
EXTENDS Integers, Sequences, FiniteSets, TLC

VARIABLES
    callbacks,   \* CallbackHandler.callbacks: slot -> closure or None
    installed,   \* engine side: kind -> how many times its trampoline is held
    lastReg,     \* history: kind -> closure last handed to the kind's method
    prevReg,     \* history: kind -> closure handed to the kind's method before that
    nreg,        \* history: number of registration calls made so far
    hostKinds,   \* the event kinds this host program registers closures for
    proc,        \* "running" | "exited" (process::exit) | "unwound" (panic left the trampoline)
    event,       \* kind of the native event handled last, or None
    ret,         \* what the last trampoline returned to the engine
    calls,       \* closures invoked while handling the last native event
    effect,      \* what the last trampoline stored or asked besides its closure
    intext,      \* the C string the last native event carried, or "none"
    engineChannels, \* engine side: channel name -> [type, addr] or NoChannel
    memory,      \* engine memory: address -> cell contents
    compiled,    \* an orchestra has been compiled (storage sizes are known)
    ksmps,       \* csoundGetKsmps
    views,       \* the ChannelPtr values the host holds, in order of acquisition
    result,      \* outcome of the host's last channel call
    lastWrite,   \* history: channel name -> value stored last in that channel
    buffers,     \* engine side: address of the spin and the input buffer, 0 = null
    nchnls_i,    \* csoundGetNchnlsInput
    dropPc,      \* how far Drop has got: "alive" until drop() starts
    teardown,    \* history: the teardown steps Drop has made, in order
    hostData,    \* engine side: the host-data pointer given to csoundCreate
    registry,    \* the boxed CallbackHandler: "boxed" | "freed"
    frees,       \* history: how many times the registry has been freed
    use_msg_buffer, \* Inner.use_msg_buffer
    msgBuffer    \* engine side: a message buffer exists

cbVars == <<callbacks, installed, lastReg, prevReg, nreg, hostKinds, proc, event, ret, calls,
            effect, intext>>
bufVars == <<buffers, nchnls_i>>
lifeVars == <<dropPc, teardown, hostData, registry, frees, use_msg_buffer, msgBuffer>>
chVars == <<engineChannels, memory, compiled, ksmps, views, result, lastWrite,
            buffers, nchnls_i, dropPc, teardown, hostData, registry, frees,
            use_msg_buffer, msgBuffer>>
vars   == <<callbacks, installed, lastReg, prevReg, nreg, hostKinds, proc, event, ret, calls,
            effect, intext,
            engineChannels, memory, compiled, ksmps, views, result, lastWrite,
            buffers, nchnls_i, dropPc, teardown, hostData, registry, frees,
            use_msg_buffer, msgBuffer>>

-----------------------------------------------------------------------------
(* Bounds of the model *)

\* registration calls explored per run
MaxReg == 3

(* Program constants *)
CSOUND_SUCCESS == 0
CSOUND_ERROR == -1
CSOUND_MEMORY == -4

\* controlChannelType
CSOUND_CONTROL_CHANNEL == 1
CSOUND_AUDIO_CHANNEL == 2
CSOUND_STRING_CHANNEL == 3
CSOUND_CHANNEL_TYPE_MASK == 15
CSOUND_INPUT_CHANNEL == 16
CSOUND_OUTPUT_CHANNEL == 32

None == "None"

\* host closures the tests hand to the registration methods
Closures == {"f", "g"}

\* the fields of struct Callbacks
Slots == {"message_cb", "devlist_cb", "play_open_cb", "rec_open_cb",
          "rt_play_cb", "rt_rec_cb", "sense_event_cb", "keyboard_cb",
          "rt_close_cb", "cscore_cb", "input_channel_cb", "output_channel_cb",
          "file_open_cb", "midi_in_open_cb", "midi_out_open_cb",
          "midi_read_cb", "midi_write_cb", "midi_in_close_cb",
          "midi_out_close_cb", "yield_cb"}

\* the callback_type values enable_callback dispatches on
Kinds == {"SENSE_EVENT", "MESSAGE_CB", "AUDIO_DEV_LIST", "PLAY_OPEN",
          "REC_OPEN", "REAL_TIME_PLAY", "REAL_TIME_REC", "RT_CLOSE_CB",
          "CHANNEL_INPUT_CB", "CHANNEL_OUTPUT_CB", "FILE_OPEN_CB",
          "MIDI_IN_OPEN_CB", "MIDI_OUT_OPEN_CB", "MIDI_READ_CB",
          "MIDI_WRITE_CB", "MIDI_IN_CLOSE", "MIDI_OUT_CLOSE", "YIELD_CB"}

\* the slot the trampoline of each kind reads
SlotOf(kind) ==
    CASE kind = "SENSE_EVENT"       -> "sense_event_cb"
      [] kind = "MESSAGE_CB"        -> "message_cb"
      [] kind = "AUDIO_DEV_LIST"    -> "devlist_cb"
      [] kind = "PLAY_OPEN"         -> "play_open_cb"
      [] kind = "REC_OPEN"          -> "rec_open_cb"
      [] kind = "REAL_TIME_PLAY"    -> "rt_play_cb"
      [] kind = "REAL_TIME_REC"     -> "rt_rec_cb"
      [] kind = "RT_CLOSE_CB"       -> "rt_close_cb"
      [] kind = "CHANNEL_INPUT_CB"  -> "input_channel_cb"
      [] kind = "CHANNEL_OUTPUT_CB" -> "output_channel_cb"
      [] kind = "FILE_OPEN_CB"      -> "file_open_cb"
      [] kind = "MIDI_IN_OPEN_CB"   -> "midi_in_open_cb"
      [] kind = "MIDI_OUT_OPEN_CB"  -> "midi_out_open_cb"
      [] kind = "MIDI_READ_CB"      -> "midi_read_cb"
      [] kind = "MIDI_WRITE_CB"     -> "midi_write_cb"
      [] kind = "MIDI_IN_CLOSE"     -> "midi_in_close_cb"
      [] kind = "MIDI_OUT_CLOSE"    -> "midi_out_close_cb"
      [] kind = "YIELD_CB"          -> "yield_cb"

-----------------------------------------------------------------------------
(* Values crossing the FFI boundary *)

\* a value returned to the engine: an int, nothing (void), or no return at all
IntRet(n) == [t |-> "int", v |-> n]
Void      == [t |-> "void", v |-> 0]
NoReturn  == [t |-> "noreturn", v |-> 0]

\* a C string the engine passes: a NULL pointer, UTF-8 text, or bytes that
\* are not UTF-8
CPtrs == {"null", "utf8", "nonutf8"}
CStrs == {"utf8", "nonutf8"}

\* an argument as a closure receives it
NoArg      == [text |-> "", n |-> 0, w |-> FALSE, t |-> FALSE]
TextArg(s) == [text |-> s, n |-> 0, w |-> FALSE, t |-> FALSE]
BothArg(s, n) == [text |-> s, n |-> n, w |-> FALSE, t |-> FALSE]

\* bytes one element of a trampoline's buffer pointer takes: *const f64 and
\* *mut f64 in the real-time audio trampolines, *mut c_uchar and *const u8 in
\* the MIDI ones
size_of_f64 == 8
size_of_u8  == 1

\* slice::from_raw_parts(buf, nbytes as usize): a slice of nbytes ELEMENTS at
\* buf, which spans nbytes * size_of::<T>() bytes; nbytes is what the engine
\* passed as the size of its buffer in bytes
SliceArg(elem, nbytes) ==
    [text |-> "", n |-> nbytes, w |-> FALSE, t |-> FALSE,
     extent |-> nbytes * elem, nbytes |-> nbytes]

\* CStr::from_ptr(p).to_str(): Ok(text) or Err
to_str(p) == IF p = "utf8" THEN "Ok" ELSE "Err"

\* Option<String>: "Some" when the pointer is not NULL and the text is UTF-8
ptr_to_string(ptr) ==
    IF ptr # "null"
    THEN (IF to_str(ptr) = "Ok" THEN "Some" ELSE "None")
    ELSE "None"

\* Status::to_i32 on the two statuses the test closures return
Statuses == {"CS_SUCCESS", "CS_ERROR"}
to_i32(status) == IF status = "CS_ERROR" THEN -1 ELSE 0

\* sizes (c_int nbytes) the engine passes with a buffer pointer
NBytes == {0, 8}

\* what a closure does when run: it panics, or returns val
BehVoid   == {[panic |-> p, val |-> 0] : p \in BOOLEAN}
BehStatus == {[panic |-> FALSE, val |-> to_i32(s)] : s \in Statuses}
                 \cup {[panic |-> TRUE, val |-> 0]}
BehCount  == {[panic |-> FALSE, val |-> n] : n \in {0, 1, 8}}
                 \cup {[panic |-> TRUE, val |-> 0]}
BehBool   == {[panic |-> FALSE, val |-> b] : b \in BOOLEAN}
                 \cup {[panic |-> TRUE, val |-> FALSE]}

\* what a trampoline stored through channelValuePtr
NoEffect == [what |-> "nothing", n |-> 0]

-----------------------------------------------------------------------------
(* The body a trampoline hands to catch, as the outcome it produces *)

\* the body returns v without running a closure
Return(v) == [calls |-> <<>>, panic |-> FALSE, ret |-> v, effect |-> NoEffect]

\* the body runs the closure of slot with arg, and returns v if it comes back
Call(cb, slot, arg, beh, v) ==
    [calls  |-> <<[slot |-> slot, fn |-> cb[slot], arg |-> arg,
                   panicked |-> beh.panic]>>,
     panic  |-> beh.panic,
     ret    |-> v,
     effect |-> NoEffect]

\* a faulty variant of catch: a panic is swallowed and None is returned
catch_swallows(o) ==
    IF o.panic
    THEN [calls |-> o.calls, st |-> "returned", opt |-> "None",
          ret |-> NoReturn, effect |-> o.effect]
    ELSE [calls |-> o.calls, st |-> "returned", opt |-> "Some",
          ret |-> o.ret, effect |-> o.effect]

\* catch: Some(ret) when the body returns, process::exit(-1) when it panics
catch(o) ==
    IF o.panic
    THEN [calls |-> o.calls, st |-> "exited", opt |-> "None",
          ret |-> NoReturn, effect |-> o.effect]
    ELSE [calls |-> o.calls, st |-> "returned", opt |-> "Some",
          ret |-> o.ret, effect |-> o.effect]

\* .unwrap() on catch's Option: a None panics outside catch, in an extern "C" frame
unwrap(c) ==
    IF c.st = "returned" /\ c.opt = "None"
    THEN [c EXCEPT !.st = "unwound", !.ret = NoReturn]
    ELSE c

\* a trampoline returning () drops catch's Option
discard(c) ==
    IF c.st = "returned" THEN [c EXCEPT !.ret = Void] ELSE c

-----------------------------------------------------------------------------
(* The trampolines.  Each is the outcome of one run, given the registry cb, *)
(* the arguments the engine passes and what the closure does if it is run.  *)

message_string_cb(cb, message, beh) ==
    discard(catch(
        IF to_str(message) = "Ok"
        THEN IF cb["message_cb"] # None
             THEN Call(cb, "message_cb", TextArg(message), beh, Void)
             ELSE Return(Void)
        ELSE Return(Void)))

\* a faulty variant of senseEventCallback: the slot is unwrapped without a check
senseEventCallback_unchecked(cb, beh) ==
    discard(catch(
        IF cb["sense_event_cb"] # None
        THEN Call(cb, "sense_event_cb", NoArg, beh, Void)
        ELSE [Return(Void) EXCEPT !.panic = TRUE]))

senseEventCallback(cb, beh) ==
    discard(catch(
        IF cb["sense_event_cb"] # None
        THEN Call(cb, "sense_event_cb", NoArg, beh, Void)
        ELSE Return(Void)))

playOpenCallback(cb, devName, beh) ==
    unwrap(catch(
        IF cb["play_open_cb"] # None
        THEN Call(cb, "play_open_cb", TextArg(ptr_to_string(devName)), beh,
                  IntRet(beh.val))
        ELSE Return(IntRet(0))))

recOpenCallback(cb, devName, beh) ==
    unwrap(catch(
        IF cb["rec_open_cb"] # None
        THEN Call(cb, "rec_open_cb", TextArg(ptr_to_string(devName)), beh,
                  IntRet(beh.val))
        ELSE Return(IntRet(-1))))

rtcloseCallback(cb, beh) ==
    discard(catch(
        IF cb["rt_close_cb"] # None
        THEN Call(cb, "rt_close_cb", NoArg, beh, Void)
        ELSE Return(Void)))

\* the closure gets a slice of nbytes elements
rtplayCallback(cb, nbytes, beh) ==
    discard(catch(
        IF cb["rt_play_cb"] # None
        THEN Call(cb, "rt_play_cb", SliceArg(size_of_f64, nbytes), beh, Void)
        ELSE Return(Void)))

rtrecordCallback(cb, nbytes, beh) ==
    unwrap(catch(
        IF cb["rt_rec_cb"] # None
        THEN Call(cb, "rt_rec_cb", SliceArg(size_of_f64, nbytes), beh,
                  IntRet(beh.val))
        ELSE Return(IntRet(-1))))

audioDeviceListCallback(cb, device_name, isOutput, beh) ==
    unwrap(catch(
        IF cb["devlist_cb"] # None
        THEN Call(cb, "devlist_cb", BothArg(ptr_to_string(device_name), isOutput),
                  beh, IntRet(0))
        ELSE Return(IntRet(0))))

\* FileTypes::from(item: u8)
FileTypes_from(item) == IF item > 63 THEN 0 ELSE item

\* the arguments the engine passed, kept beside the outcome
Passed(o, fileType, operation, isTemp) ==
    [o EXCEPT !.effect = [what |-> "file_open", n |-> fileType,
                          operation |-> operation, isTemp |-> isTemp]]

fileOpenCallback(cb, filePath, fileType, operation, isTemp, beh) ==
    discard(catch(
        IF cb["file_open_cb"] # None
        THEN Passed(Call(cb, "file_open_cb",
                         [text |-> ptr_to_string(filePath),
                          n    |-> FileTypes_from(fileType % 256),
                          w    |-> operation # 0,
                          t    |-> isTemp # 0],
                         beh, Void),
                    fileType, operation, isTemp)
        ELSE Return(Void)))

\* what the channel-input closure returns: ChannelData
ChannelDatas ==
    {[tag |-> "CS_CONTROL_CHANNEL", len |-> 0, nul |-> FALSE],
     [tag |-> "CS_UNKNOWN_CHANNEL", len |-> 0, nul |-> FALSE]}
    \cup {[tag |-> "CS_STRING_CHANNEL", len |-> l, nul |-> z] :
              l \in {1, 3}, z \in BOOLEAN}
BehChannel == {[panic |-> FALSE, val |-> d] : d \in ChannelDatas}
                  \cup {[panic |-> TRUE,
                         val |-> [tag |-> "CS_UNKNOWN_CHANNEL", len |-> 0, nul |-> FALSE]]}

\* the store the result match of inputChannelCallback makes; datasize is
\* csoundGetChannelDatasize(csound, channelName)
inputChannelStore(data, datasize) ==
    CASE data.tag = "CS_CONTROL_CHANNEL" -> [what |-> "f64", n |-> 1]
      [] data.tag = "CS_STRING_CHANNEL" ->
             IF datasize <= data.len /\ ~data.nul
             THEN [what |-> "memcpy", n |-> data.len, datasize |-> datasize]
             ELSE NoEffect
      [] OTHER -> NoEffect

inputChannelCallback(cb, channelName, datasize, beh) ==
    discard(catch(
        IF to_str(channelName) = "Err"
        THEN Return(Void)
        ELSE IF cb["input_channel_cb"] # None
             THEN [Call(cb, "input_channel_cb", TextArg(channelName), beh, Void)
                      EXCEPT !.effect = IF beh.panic THEN NoEffect
                                        ELSE inputChannelStore(beh.val, datasize)]
             ELSE Return(Void)))

\* the trampoline asked the engine for the channel's type and got live
Queried(o, live) == [o EXCEPT !.effect = [what |-> "query", n |-> live]]

\* a faulty variant of outputChannelCallback: the value the engine answers is
\* matched without masking the type bits
outputChannelCallback_unmasked(cb, channelName, live, beh) ==
    discard(catch(
        IF to_str(channelName) = "Err"
        THEN Return(Void)
        ELSE Queried(
              IF cb["output_channel_cb"] # None
              THEN CASE live = CSOUND_CONTROL_CHANNEL ->
                            Call(cb, "output_channel_cb",
                                 BothArg("CS_CONTROL_CHANNEL", 0), beh, Void)
                     [] live = CSOUND_STRING_CHANNEL ->
                            Call(cb, "output_channel_cb",
                                 BothArg("CS_STRING_CHANNEL", 0), beh, Void)
                     [] OTHER -> Return(Void)
              ELSE Return(Void), live)))

\* live is what csoundGetChannelPtr(csound, ptr, channelName, 0) answers, cast
\* to u32; channel_type is live & CSOUND_CHANNEL_TYPE_MASK
outputChannelCallback(cb, channelName, live, beh) ==
    LET channel_type == live % (CSOUND_CHANNEL_TYPE_MASK + 1)
    IN  discard(catch(
          IF to_str(channelName) = "Err"
          THEN Return(Void)
          ELSE Queried(
                IF cb["output_channel_cb"] # None
                THEN CASE channel_type = CSOUND_CONTROL_CHANNEL ->
                              Call(cb, "output_channel_cb",
                                   BothArg("CS_CONTROL_CHANNEL", 0), beh, Void)
                       [] channel_type = CSOUND_STRING_CHANNEL ->
                              Call(cb, "output_channel_cb",
                                   BothArg("CS_STRING_CHANNEL", 0), beh, Void)
                       [] OTHER -> Return(Void)
                ELSE Return(Void), live)))

midiInOpenCallback(cb, devName, beh) ==
    unwrap(catch(
        IF to_str(devName) = "Err"
        THEN Return(IntRet(CSOUND_ERROR))
        ELSE IF cb["midi_in_open_cb"] # None
             THEN Call(cb, "midi_in_open_cb", TextArg(devName), beh,
                       IntRet(CSOUND_SUCCESS))
             ELSE Return(IntRet(CSOUND_SUCCESS))))

midiOutOpenCallback(cb, devName, beh) ==
    unwrap(catch(
        IF to_str(devName) = "Err"
        THEN Return(IntRet(CSOUND_ERROR))
        ELSE IF cb["midi_out_open_cb"] # None
             THEN Call(cb, "midi_out_open_cb", TextArg(devName), beh,
                       IntRet(CSOUND_SUCCESS))
             ELSE Return(IntRet(CSOUND_SUCCESS))))

midiReadCallback(cb, nbytes, beh) ==
    unwrap(catch(
        IF cb["midi_read_cb"] # None
        THEN Call(cb, "midi_read_cb", SliceArg(size_of_u8, nbytes), beh,
                  IntRet(beh.val))
        ELSE Return(IntRet(-1))))

midiWriteCallback(cb, nbytes, beh) ==
    unwrap(catch(
        IF cb["midi_write_cb"] # None
        THEN Call(cb, "midi_write_cb", SliceArg(size_of_u8, nbytes), beh,
                  IntRet(beh.val))
        ELSE Return(IntRet(-1))))

midiInCloseCallback(cb, beh) ==
    unwrap(catch(
        IF cb["midi_in_close_cb"] # None
        THEN Call(cb, "midi_in_close_cb", NoArg, beh, IntRet(CSOUND_SUCCESS))
        ELSE Return(IntRet(CSOUND_SUCCESS))))

midiOutCloseCallback(cb, beh) ==
    unwrap(catch(
        IF cb["midi_out_close_cb"] # None
        THEN Call(cb, "midi_out_close_cb", NoArg, beh, IntRet(CSOUND_SUCCESS))
        ELSE Return(IntRet(CSOUND_SUCCESS))))

\* the closure's bool is returned as c_int
\* fun() as c_int: true is 1, false is 0
bool_as_c_int(b) == IF b THEN 1 ELSE 0

\* the body runs the yield closure; out is the bool it answers when it comes
\* back, v the value the body returns for it
CallBool(cb, slot, beh, v) ==
    [calls  |-> <<[slot |-> slot, fn |-> cb[slot], arg |-> NoArg,
                   panicked |-> beh.panic, out |-> beh.val]>>,
     panic  |-> beh.panic,
     ret    |-> v,
     effect |-> NoEffect]

\* a faulty variant of yieldCallback: the closure's answer is dropped and the
\* engine is always told to continue
yieldCallback_always_continue(cb, beh) ==
    unwrap(catch(
        IF cb["yield_cb"] # None
        THEN CallBool(cb, "yield_cb", beh, IntRet(1))
        ELSE Return(IntRet(0))))

yieldCallback(cb, beh) ==
    unwrap(catch(
        IF cb["yield_cb"] # None
        THEN CallBool(cb, "yield_cb", beh, IntRet(bool_as_c_int(beh.val)))
        ELSE Return(IntRet(0))))

-----------------------------------------------------------------------------
(* Registration: the host hands a closure to the method of one event kind *)

\* enable_callback: the engine is given the trampoline of callback_type.  A
\* csoundSet...Callback call overwrites the engine's one pointer for the kind;
\* csoundRegisterSenseEventCallback adds one more entry to the engine's list.
enable_callback(inst, callback_type) ==
    [inst EXCEPT ![callback_type] =
        IF callback_type = "SENSE_EVENT" THEN @ + 1 ELSE 1]

\* the body every registration method shares: the closure is boxed into the
\* named field of the registry the host-data pointer leads to, then
\* enable_callback runs for the method's kind
StoreAndEnable(slot, callback_type, f) ==
    /\ proc = "running"
    /\ nreg < MaxReg
    /\ callback_type \in hostKinds
    /\ callbacks' = [callbacks EXCEPT ![slot] = f]
    /\ installed' = enable_callback(installed, callback_type)
    /\ prevReg' = [prevReg EXCEPT ![callback_type] = lastReg[callback_type]]
    /\ lastReg' = [lastReg EXCEPT ![callback_type] = f]
    /\ nreg' = nreg + 1
    /\ event' = None
    /\ ret' = Void
    /\ calls' = <<>>
    /\ effect' = NoEffect
    /\ intext' = "none"
    /\ UNCHANGED <<proc, hostKinds>>
    /\ UNCHANGED chVars

audio_device_list_callback(f) == StoreAndEnable("devlist_cb", "AUDIO_DEV_LIST", f)
play_open_audio_callback(f)   == StoreAndEnable("play_open_cb", "PLAY_OPEN", f)
rec_open_audio_callback(f)    == StoreAndEnable("play_open_cb", "REC_OPEN", f)
rt_audio_play_callback(f)     == StoreAndEnable("rt_play_cb", "REAL_TIME_PLAY", f)
rt_audio_rec_callback(f)      == StoreAndEnable("rt_rec_cb", "REAL_TIME_REC", f)
rt_close_callback(f)          == StoreAndEnable("rt_close_cb", "RT_CLOSE_CB", f)
sense_event_callback(f)       == StoreAndEnable("sense_event_cb", "SENSE_EVENT", f)
message_string_callback(f)    == StoreAndEnable("message_cb", "MESSAGE_CB", f)
input_channel_callback(f)     == StoreAndEnable("input_channel_cb", "CHANNEL_INPUT_CB", f)
output_channel_callback(f)    == StoreAndEnable("output_channel_cb", "CHANNEL_OUTPUT_CB", f)
file_open_callback(f)         == StoreAndEnable("file_open_cb", "FILE_OPEN_CB", f)
midi_in_open_callback(f)      == StoreAndEnable("midi_in_open_cb", "MIDI_IN_OPEN_CB", f)
midi_out_open_callback(f)     == StoreAndEnable("midi_out_open_cb", "MIDI_OUT_OPEN_CB", f)
midi_read_callback(f)         == StoreAndEnable("midi_read_cb", "MIDI_READ_CB", f)
midi_write_callback(f)        == StoreAndEnable("midi_write_cb", "MIDI_WRITE_CB", f)
midi_in_close_callback(f)     == StoreAndEnable("midi_in_close_cb", "MIDI_IN_CLOSE", f)
midi_out_close_callback(f)    == StoreAndEnable("midi_out_close_cb", "MIDI_OUT_CLOSE", f)
yield_callback(f)             == StoreAndEnable("yield_cb", "YIELD_CB", f)

-----------------------------------------------------------------------------
(* Native events: the engine runs the trampoline it holds for the kind *)

RECURSIVE Repeat(_, _)
Repeat(s, n) == IF n <= 0 THEN <<>> ELSE s \o Repeat(s, n - 1)

\* One native event of kind: the engine runs each entry it holds for the kind
\* (one for a set-style callback), stopping if the process ends.  o is the
\* outcome of one run of the trampoline, text the C string passed with it.
Deliver(kind, text, o) ==
    /\ proc = "running"
    /\ installed[kind] > 0
    /\ event' = kind
    /\ intext' = text
    /\ calls' = IF o.st = "returned" THEN Repeat(o.calls, installed[kind])
                ELSE o.calls
    /\ ret' = o.ret
    /\ effect' = o.effect
    /\ proc' = IF o.st = "returned" THEN "running" ELSE o.st
    /\ UNCHANGED <<callbacks, installed, lastReg, prevReg, nreg, hostKinds>>
    /\ UNCHANGED chVars

OnMessage ==
    \E m \in CStrs, beh \in BehVoid :
        Deliver("MESSAGE_CB", m, message_string_cb(callbacks, m, beh))

OnSenseEvent ==
    \E beh \in BehVoid :
        Deliver("SENSE_EVENT", "none", senseEventCallback(callbacks, beh))

OnPlayOpen ==
    \E d \in CPtrs, beh \in BehStatus :
        Deliver("PLAY_OPEN", d, playOpenCallback(callbacks, d, beh))

OnRecOpen ==
    \E d \in CPtrs, beh \in BehStatus :
        Deliver("REC_OPEN", d, recOpenCallback(callbacks, d, beh))

OnRtClose ==
    \E beh \in BehVoid :
        Deliver("RT_CLOSE_CB", "none", rtcloseCallback(callbacks, beh))

OnRtPlay ==
    \E n \in NBytes, beh \in BehVoid :
        Deliver("REAL_TIME_PLAY", "none", rtplayCallback(callbacks, n, beh))

OnRtRecord ==
    \E n \in NBytes, beh \in BehCount :
        Deliver("REAL_TIME_REC", "none", rtrecordCallback(callbacks, n, beh))

OnAudioDeviceList ==
    \E d \in CStrs, isOutput \in {0, 1}, beh \in BehVoid :
        Deliver("AUDIO_DEV_LIST", d,
                audioDeviceListCallback(callbacks, d, isOutput, beh))

\* file type codes the engine passes
FileTypeCodes == {1, 64, 300}

OnFileOpen ==
    \E p \in CPtrs, ft \in FileTypeCodes, op \in {0, 1}, tmp \in {0, 2},
       beh \in BehVoid :
        Deliver("FILE_OPEN_CB", p,
                fileOpenCallback(callbacks, p, ft, op, tmp, beh))

\* sizes csoundGetChannelDatasize reports for the channel of the event
DataSizes == {0, 2}

OnInputChannel ==
    \E c \in CStrs, sz \in DataSizes, beh \in BehChannel :
        Deliver("CHANNEL_INPUT_CB", c,
                inputChannelCallback(callbacks, c, sz, beh))

\* what csoundGetChannelPtr answers when asked with type 0: the type of the
\* channel the table holds (control, audio, string), with its input or output
\* bit when it has one, or CSOUND_ERROR when the table holds no such channel
LiveTypes == {CSOUND_CONTROL_CHANNEL, CSOUND_AUDIO_CHANNEL, CSOUND_STRING_CHANNEL,
              CSOUND_CONTROL_CHANNEL + CSOUND_OUTPUT_CHANNEL, CSOUND_ERROR}

OnOutputChannel ==
    \E c \in CStrs, ty \in LiveTypes, beh \in BehVoid :
        Deliver("CHANNEL_OUTPUT_CB", c,
                outputChannelCallback(callbacks, c, ty, beh))

OnMidiInOpen ==
    \E d \in CStrs, beh \in BehVoid :
        Deliver("MIDI_IN_OPEN_CB", d, midiInOpenCallback(callbacks, d, beh))

OnMidiOutOpen ==
    \E d \in CStrs, beh \in BehVoid :
        Deliver("MIDI_OUT_OPEN_CB", d, midiOutOpenCallback(callbacks, d, beh))

OnMidiRead ==
    \E n \in NBytes, beh \in BehCount :
        Deliver("MIDI_READ_CB", "none", midiReadCallback(callbacks, n, beh))

OnMidiWrite ==
    \E n \in NBytes, beh \in BehCount :
        Deliver("MIDI_WRITE_CB", "none", midiWriteCallback(callbacks, n, beh))

OnMidiInClose ==
    \E beh \in BehVoid :
        Deliver("MIDI_IN_CLOSE", "none", midiInCloseCallback(callbacks, beh))

OnMidiOutClose ==
    \E beh \in BehVoid :
        Deliver("MIDI_OUT_CLOSE", "none", midiOutCloseCallback(callbacks, beh))

\* The engine polls the yield trampoline during an operation and stops the
\* operation when the poll answers 0: there is no further poll until the
\* engine is doing something else.
OnYield ==
    /\ ~(event = "YIELD_CB" /\ ret = IntRet(0))
    /\ \E beh \in BehBool :
          Deliver("YIELD_CB", "none", yieldCallback(callbacks, beh))

NativeEvent ==
    \/ OnMessage
    \/ OnSenseEvent
    \/ OnPlayOpen
    \/ OnRecOpen
    \/ OnRtClose
    \/ OnRtPlay
    \/ OnRtRecord
    \/ OnAudioDeviceList
    \/ OnFileOpen
    \/ OnInputChannel
    \/ OnOutputChannel
    \/ OnMidiInOpen
    \/ OnMidiOutOpen
    \/ OnMidiRead
    \/ OnMidiWrite
    \/ OnMidiInClose
    \/ OnMidiOutClose
    \/ OnYield

Registration ==
    \E f \in Closures :
        \/ audio_device_list_callback(f)
        \/ play_open_audio_callback(f)
        \/ rec_open_audio_callback(f)
        \/ rt_audio_play_callback(f)
        \/ rt_audio_rec_callback(f)
        \/ rt_close_callback(f)
        \/ sense_event_callback(f)
        \/ message_string_callback(f)
        \/ input_channel_callback(f)
        \/ output_channel_callback(f)
        \/ file_open_callback(f)
        \/ midi_in_open_callback(f)
        \/ midi_out_open_callback(f)
        \/ midi_read_callback(f)
        \/ midi_write_callback(f)
        \/ midi_in_close_callback(f)
        \/ midi_out_close_callback(f)
        \/ yield_callback(f)

-----------------------------------------------------------------------------
(* Initial states *)

\* channel names the host uses; BadName has an interior NUL byte
ChannelNames == {"a", "b"}
BadName == "a_NUL_b"

NoChannel == [type |-> 0, addr |-> 0]
\* what the last channel call gave back: a view (its index), a value, a status
NoResult == [tag |-> "none", status |-> [name |-> "CS_SUCCESS", v |-> 0],
             view |-> 0, val |-> 0, name |-> "", kind |-> "",
             data |-> <<>>, oob |-> FALSE]
\* the last store into a channel, and who made it
NotWritten == [set |-> FALSE, v |-> 0, by |-> "nobody"]

\* before an orchestra is compiled csoundGetSpin and csoundGetInputBuffer
\* answer null
NoBuffers == [spin |-> 0, input |-> 0]

\* the address of the CallbackHandler boxed by Csound::default()
RegistryAddr == "callback_handler"

\* Csound::default(): the registry is boxed and its address handed to
\* csoundCreate as host data; no message buffer is in use
LifeInit ==
    /\ dropPc = "alive"
    /\ teardown = <<>>
    /\ hostData = RegistryAddr
    /\ registry = "boxed"
    /\ frees = 0
    /\ use_msg_buffer = FALSE
    /\ msgBuffer = FALSE

\* the channel side before any channel call
ChannelInit ==
    /\ engineChannels = [n \in ChannelNames |-> NoChannel]
    /\ memory = <<>>
    /\ compiled = FALSE
    /\ ksmps = 1
    /\ views = <<>>
    /\ result = NoResult
    /\ lastWrite = [n \in ChannelNames |-> NotWritten]
    /\ buffers = NoBuffers
    /\ nchnls_i = 1
    /\ LifeInit

\* nothing has been observed at the FFI boundary yet
ObservedInit ==
    /\ proc = "running"
    /\ event = None
    /\ ret = Void
    /\ calls = <<>>
    /\ effect = NoEffect
    /\ intext = "none"

\* Csound::default(): an empty registry is boxed and handed to csoundCreate.
\* The host program is one that registers closures for at most two event
\* kinds, any two.
Init ==
    /\ callbacks = [s \in Slots |-> None]
    /\ installed = [k \in Kinds |-> 0]
    /\ lastReg = [k \in Kinds |-> None]
    /\ prevReg = [k \in Kinds |-> None]
    /\ nreg = 0
    /\ \E k1 \in Kinds, k2 \in Kinds : hostKinds = {k1, k2}
    /\ ObservedInit
    /\ ChannelInit

Next == Registration \/ NativeEvent

Spec == Init /\ [][Next]_vars

\* The trampolines taken alone: the registry is any registry with at most two
\* occupied slots, and the engine holds every trampoline once.
TrampolineInit ==
    /\ \E s1 \in Slots, s2 \in Slots, c1 \in Closures \cup {None},
          c2 \in Closures \cup {None} :
           callbacks = [s \in Slots |-> IF s = s1 THEN c1
                                        ELSE IF s = s2 THEN c2 ELSE None]
    /\ installed = [k \in Kinds |-> 1]
    /\ lastReg = [k \in Kinds |-> None]
    /\ prevReg = [k \in Kinds |-> None]
    /\ nreg = 0
    /\ hostKinds = {}
    /\ ObservedInit
    /\ ChannelInit

\* each behaviour runs one trampoline once
TrampolineNext == event = None /\ NativeEvent

TrampolineSpec == TrampolineInit /\ [][TrampolineNext]_vars

-----------------------------------------------------------------------------
(* Channels: the engine's channel table and the host's typed views *)

\* views the host holds at once
MaxViews == 2

\* bytes the engine gives a new string channel
StrChannelSize == 2

\* ksmps values an orchestra header may set
KsmpsValues == {1, 2}

\* nchnls_i values an orchestra header may set
NchnlsValues == {1, 2}

\* sizes (in samples) the engine may give its input buffer
BufferSizes == {2}

\* f64 values written to control channels
Values == {0, 7}


\* ChannelInternalType, as the type code each stands for
ChannelKinds == {"CONTROL", "AUDIO", "STR"}
KindCode(C) ==
    CASE C = "CONTROL" -> CSOUND_CONTROL_CHANNEL
      [] C = "AUDIO"   -> CSOUND_AUDIO_CHANNEL
      [] C = "STR"     -> CSOUND_STRING_CHANNEL

RECURSIVE Zeros(_)
Zeros(n) == IF n <= 0 THEN <<>> ELSE <<0>> \o Zeros(n - 1)

\* impl From<i32> for Status
Status_from(value) ==
    CASE value = -5 -> [name |-> "CS_SIGNAL", v |-> 0]
      [] value = -4 -> [name |-> "CS_MEMORY", v |-> 0]
      [] value = -3 -> [name |-> "CS_PERFORMANCE", v |-> 0]
      [] value = -2 -> [name |-> "CS_INITIALIZATION", v |-> 0]
      [] value = -1 -> [name |-> "CS_ERROR", v |-> 0]
      [] value = 0  -> [name |-> "CS_SUCCESS", v |-> 0]
      [] OTHER      -> [name |-> "CS_OK", v |-> value]

\* The engine's csoundGetChannelPtr on its table chs and memory mem: the
\* channel is created if it does not exist (audio and string channels only
\* once an orchestra is compiled); an existing channel of another type is
\* answered with that type; alloc_ok says whether the engine finds storage.
csoundGetChannelPtr(chs, mem, name, type, alloc_ok) ==
    LET kind == type % (CSOUND_CHANNEL_TYPE_MASK + 1)
        size == CASE kind = CSOUND_CONTROL_CHANNEL -> 1
                  [] kind = CSOUND_AUDIO_CHANNEL -> ksmps
                  [] OTHER -> StrChannelSize
        fail(code) == [status |-> code, ptr |-> 0, chs |-> chs, mem |-> mem]
    IN  IF chs[name].type # 0
        THEN IF chs[name].type = kind
             THEN [status |-> CSOUND_SUCCESS, ptr |-> chs[name].addr,
                   chs |-> chs, mem |-> mem]
             ELSE fail(chs[name].type)
        ELSE IF kind \notin {CSOUND_CONTROL_CHANNEL, CSOUND_AUDIO_CHANNEL,
                             CSOUND_STRING_CHANNEL}
                \/ (kind # CSOUND_CONTROL_CHANNEL /\ ~compiled)
             THEN fail(CSOUND_ERROR)
             ELSE IF ~alloc_ok
                  THEN fail(CSOUND_MEMORY)
                  ELSE [status |-> CSOUND_SUCCESS,
                        ptr    |-> Len(mem) + 1,
                        chs    |-> [chs EXCEPT ![name] =
                                       [type |-> kind, addr |-> Len(mem) + 1]],
                        mem    |-> Append(mem, Zeros(size))]

\* The engine's csoundGetChannelDatasize: the size of a string channel's
\* data, 0 for a name the table does not hold
csoundGetChannelDatasize(chs, mem, name) ==
    IF chs[name].type = 0 THEN 0 ELSE Len(mem[chs[name].addr])

\* Csound::get_channel_data_size: CString::new(name).unwrap(), then the engine
get_channel_data_size(chs, mem, name) ==
    IF name \notin ChannelNames
    THEN [panic |-> TRUE, size |-> 0]
    ELSE [panic |-> FALSE, size |-> csoundGetChannelDatasize(chs, mem, name)]

\* Csound::get_raw_channel_ptr: the name goes to the engine as a C string; a
\* name that is no C string is answered with CSOUND_ERROR
get_raw_channel_ptr(chs, mem, name, bits, alloc_ok) ==
    IF name \notin ChannelNames
    THEN [status |-> CSOUND_ERROR, ptr |-> 0, chs |-> chs, mem |-> mem]
    ELSE csoundGetChannelPtr(chs, mem, name, bits, alloc_ok)

\* a faulty variant of channel_len: the Audio and Control counts are swapped
channel_len_swapped(C, chs, mem, name) ==
    CASE C = "AUDIO"   -> [panic |-> FALSE, size |-> 1]
      [] C = "CONTROL" -> [panic |-> FALSE, size |-> ksmps]
      [] C = "STR"     -> get_channel_data_size(chs, mem, name)

\* the element count get_input_channel / get_output_channel give the view,
\* computed before the engine is asked for the pointer
channel_len(C, chs, mem, name) ==
    CASE C = "AUDIO"   -> [panic |-> FALSE, size |-> ksmps]
      [] C = "CONTROL" -> [panic |-> FALSE, size |-> 1]
      [] C = "STR"     -> get_channel_data_size(chs, mem, name)

\* a faulty variant of channel_result: a positive status counts as success
channel_result_ok_on_positive(st, ptr, len, C, dir, name) ==
    IF st.name \in {"CS_SUCCESS", "CS_OK"}
    THEN [tag |-> "Ok", status |-> st,
          view |-> <<[ptr |-> ptr, len |-> len, kind |-> C, dir |-> dir,
                      name |-> name]>>]
    ELSE [tag |-> "Err", status |-> st, view |-> <<>>]

\* the result match of get_input_channel / get_output_channel: a view on
\* CS_SUCCESS, otherwise the status as the error.  name is kept with the view
\* as history only; ChannelPtr has no such field.
channel_result(st, ptr, len, C, dir, name) ==
    IF st.name = "CS_SUCCESS"
    THEN [tag |-> "Ok", status |-> st,
          view |-> <<[ptr |-> ptr, len |-> len, kind |-> C, dir |-> dir,
                      name |-> name]>>]
    ELSE [tag |-> "Err", status |-> st, view |-> <<>>]

\* what get_input_channel and get_output_channel share (one macro body)
AcquireChannel(name, C, dir, dirbits, alloc_ok) ==
    /\ Len(views) < MaxViews
    /\ LET len == channel_len(C, engineChannels, memory, name)
       IN  IF len.panic
           THEN /\ result' = [NoResult EXCEPT !.tag = "panic", !.name = name,
                                              !.kind = C]
                /\ UNCHANGED <<engineChannels, memory, views>>
           ELSE LET r  == get_raw_channel_ptr(engineChannels, memory, name,
                                              KindCode(C) + dirbits, alloc_ok)
                    cr == channel_result(Status_from(r.status), r.ptr,
                                         len.size, C, dir, name)
                IN  /\ engineChannels' = r.chs
                    /\ memory' = r.mem
                    /\ views' = views \o cr.view
                    /\ result' = [tag |-> cr.tag, status |-> cr.status,
                                  view |-> IF cr.tag = "Ok" THEN Len(views) + 1
                                           ELSE 0,
                                  val |-> 0,
                                  name |-> name,
                                  kind |-> C,
                                  data |-> <<>>,
                                  oob |-> FALSE]
    /\ UNCHANGED <<compiled, ksmps, lastWrite>>
    /\ UNCHANGED cbVars
    /\ UNCHANGED lifeVars
    /\ UNCHANGED bufVars

get_input_channel(name, C, alloc_ok) ==
    AcquireChannel(name, C, "Writable", CSOUND_INPUT_CHANNEL, alloc_ok)

get_output_channel(name, C, alloc_ok) ==
    AcquireChannel(name, C, "Readable", CSOUND_OUTPUT_CHANNEL, alloc_ok)

\* a faulty variant of ControlWrite: the store goes to a local copy, not through ptr
ControlWrite_lost(mem, ptr, inp) == mem

\* ChannelPtr<ControlChannel, Writable>::write: *self.ptr = inp
ControlWrite(mem, ptr, inp) == [mem EXCEPT ![ptr] = [@ EXCEPT ![1] = inp]]

\* ChannelPtr<ControlChannel, Readable>::read and as_ref: &*self.ptr
ControlRead(mem, ptr) == mem[ptr][1]

\* write(inp) through the i-th view, a Writable Control view
write(i, inp) ==
    /\ i \in 1..Len(views)
    /\ views[i].kind = "CONTROL"
    /\ views[i].dir = "Writable"
    /\ memory' = ControlWrite(memory, views[i].ptr, inp)
    /\ lastWrite' = [lastWrite EXCEPT ![views[i].name] =
                        [set |-> TRUE, v |-> inp, by |-> "host"]]
    /\ result' = [NoResult EXCEPT !.tag = "write", !.view = i]
    /\ UNCHANGED <<engineChannels, compiled, ksmps, views>>
    /\ UNCHANGED cbVars
    /\ UNCHANGED lifeVars
    /\ UNCHANGED bufVars

\* read() through the i-th view, a Readable Control view
read(i) ==
    /\ i \in 1..Len(views)
    /\ views[i].kind = "CONTROL"
    /\ views[i].dir = "Readable"
    /\ result' = [NoResult EXCEPT !.tag = "read", !.view = i,
                                   !.val = ControlRead(memory, views[i].ptr)]
    /\ UNCHANGED <<engineChannels, memory, compiled, ksmps, views, lastWrite>>
    /\ UNCHANGED cbVars
    /\ UNCHANGED lifeVars
    /\ UNCHANGED bufVars

\* slice::from_raw_parts(ptr, len): the first len elements of the region at
\* ptr; a len beyond the region's end reads out of bounds
from_raw_parts(mem, ptr, len) ==
    [data |-> [k \in 1..(IF len < Len(mem[ptr]) THEN len ELSE Len(mem[ptr])) |->
                  mem[ptr][k]],
     oob  |-> len > Len(mem[ptr])]

\* read() through the i-th view, a Readable Audio or String view
read_slice(i) ==
    /\ i \in 1..Len(views)
    /\ views[i].kind \in {"AUDIO", "STR"}
    /\ views[i].dir = "Readable"
    /\ LET r == from_raw_parts(memory, views[i].ptr, views[i].len)
       IN  result' = [NoResult EXCEPT !.tag = "read_slice", !.view = i,
                                      !.data = r.data, !.oob = r.oob]
    /\ UNCHANGED <<engineChannels, memory, compiled, ksmps, views, lastWrite>>
    /\ UNCHANGED cbVars
    /\ UNCHANGED lifeVars
    /\ UNCHANGED bufVars

\* as_ref() on the i-th view, a Control view of either direction
as_ref(i) ==
    /\ i \in 1..Len(views)
    /\ views[i].kind = "CONTROL"
    /\ result' = [NoResult EXCEPT !.tag = "as_ref", !.view = i,
                                   !.val = ControlRead(memory, views[i].ptr)]
    /\ UNCHANGED <<engineChannels, memory, compiled, ksmps, views, lastWrite>>
    /\ UNCHANGED cbVars
    /\ UNCHANGED lifeVars
    /\ UNCHANGED bufVars

\* compile_csd: the engine compiles an orchestra, which sets ksmps and the
\* number of input channels and allocates the spin buffer (ksmps * nchnls_i
\* samples) and the input buffer (b samples)
compile_csd(k, c, b) ==
    /\ ~compiled
    /\ compiled' = TRUE
    /\ ksmps' = k
    /\ nchnls_i' = c
    /\ memory' = memory \o <<Zeros(k * c), Zeros(b)>>
    /\ buffers' = [spin |-> Len(memory) + 1, input |-> Len(memory) + 2]
    /\ result' = [NoResult EXCEPT !.tag = "compile"]
    /\ UNCHANGED <<engineChannels, views, lastWrite>>
    /\ UNCHANGED cbVars
    /\ UNCHANGED lifeVars

\* perform_ksmps: one control period, in which an instrument may store a
\* value in a control channel the table holds
perform_ksmps(name, v) ==
    /\ compiled
    /\ engineChannels[name].type = CSOUND_CONTROL_CHANNEL
    /\ memory' = [memory EXCEPT ![engineChannels[name].addr] = <<v>>]
    /\ lastWrite' = [lastWrite EXCEPT ![name] =
                        [set |-> TRUE, v |-> v, by |-> "engine"]]
    /\ result' = [NoResult EXCEPT !.tag = "perform"]
    /\ UNCHANGED <<engineChannels, compiled, ksmps, views>>
    /\ UNCHANGED cbVars
    /\ UNCHANGED lifeVars
    /\ UNCHANGED bufVars

ChannelNext ==
    \/ \E k \in KsmpsValues, b \in BufferSizes : compile_csd(k, 1, b)
    \/ \E n \in ChannelNames \cup {BadName}, C \in ChannelKinds, ok \in BOOLEAN :
           get_input_channel(n, C, ok)
    \/ \E n \in ChannelNames \cup {BadName}, C \in ChannelKinds, ok \in BOOLEAN :
           get_output_channel(n, C, ok)
    \/ \E i \in 1..MaxViews, v \in Values : write(i, v)
    \/ \E i \in 1..MaxViews : read(i)
    \/ \E i \in 1..MaxViews : as_ref(i)
    \/ \E i \in 1..MaxViews : read_slice(i)
    \/ \E n \in ChannelNames, v \in Values : perform_ksmps(n, v)

\* A host that only uses channels: no closure is registered
ChannelSpecInit ==
    /\ callbacks = [s \in Slots |-> None]
    /\ installed = [k \in Kinds |-> 0]
    /\ lastReg = [k \in Kinds |-> None]
    /\ prevReg = [k \in Kinds |-> None]
    /\ nreg = 0
    /\ hostKinds = {}
    /\ ObservedInit
    /\ ChannelInit

ChannelSpec == ChannelSpecInit /\ [][ChannelNext]_vars

-----------------------------------------------------------------------------
(* Properties of registration and dispatch *)

\* a closure was run and panicked during the last event
Panicked == \E i \in DOMAIN calls : calls[i].panicked

\* C1: for every event kind K with a closure registered through K's
\* registration method, an occurrence of the native event K (with arguments
\* that are valid text) invokes exactly that closure, exactly once, read from
\* the slot K's trampoline reads.
C1_RegisteredClosureInvokedOnce ==
    \A k \in Kinds :
        (event = k /\ lastReg[k] # None /\ intext # "nonutf8")
            => /\ Len(calls) = 1
               /\ calls[1].fn = lastReg[k]
               /\ calls[1].slot = SlotOf(k)

\* C2: after closure f and then a different closure g were registered for the
\* same kind K, an occurrence of event K never invokes f.
C2_ReplacedClosureNeverInvoked ==
    \A k \in Kinds :
        (event = k /\ prevReg[k] # None /\ lastReg[k] # prevReg[k])
            => \A i \in DOMAIN calls : calls[i].fn # prevReg[k]

\* C3: a run of the trampoline of a kind whose registry slot is empty returns
\* to the engine (the process keeps running), invokes no closure and leaves
\* every registry slot as it was.
C3_EmptySlotReturnsNormally ==
    [][\A k \in Kinds :
          (event' = k /\ callbacks[SlotOf(k)] = None)
              => /\ proc' = "running"
                 /\ ret' # NoReturn
                 /\ calls' = <<>>
                 /\ callbacks' = callbacks]_vars

\* C3, its case: the trampoline of some kind has run on an empty slot
C3_Witness ==
    /\ event \in Kinds
    /\ callbacks[SlotOf(event)] = None
    /\ proc = "running"

\* C4: with no closure in the real-time record slot, the record trampoline
\* returns 0 to the engine.
C4_RecordEmptyReturnsZero ==
    (event = "REAL_TIME_REC" /\ callbacks["rt_rec_cb"] = None)
        => ret = IntRet(0)

\* C5: with no closure in the slot of an open event (play-open, rec-open), the
\* event's trampoline returns a status different from CSOUND_SUCCESS.
C5_OpenEmptyReturnsNotSuccessful ==
    \A k \in {"PLAY_OPEN", "REC_OPEN"} :
        (event = k /\ callbacks[SlotOf(k)] = None)
            => (ret.t = "int" /\ ret.v # CSOUND_SUCCESS)

\* C6: when a closure panics while a trampoline runs it, the process is
\* terminated there: nothing is returned to the engine, the panic does not
\* unwind out of the trampoline, the panicking call is the last one made, and
\* no trampoline or registration runs once the process has ended.
C6_PanicTerminatesProcess ==
    [][/\ proc = "running"
       /\ (\E i \in DOMAIN calls' : calls'[i].panicked)
              => /\ proc' = "exited"
                 /\ ret' = NoReturn
                 /\ calls'[Len(calls')].panicked]_vars

\* C6, its case: a registered closure has panicked in a trampoline
C6_Witness ==
    /\ Panicked
    /\ event \in Kinds
    /\ lastReg[event] = calls[1].fn
    /\ proc = "exited"

\* C7: a trampoline given a C string that is not valid text, for a kind whose
\* closure is registered, does not end the process (unless the closure itself
\* panics) and does not return an error status without the closure having run.
C7_InvalidTextNotEscalated ==
    \A k \in Kinds :
        (event = k /\ intext = "nonutf8" /\ callbacks[SlotOf(k)] # None)
            => /\ (proc = "running" \/ Panicked)
               /\ ~(calls = <<>> /\ ret.t = "int" /\ ret.v # CSOUND_SUCCESS)

-----------------------------------------------------------------------------
(* Properties of channel views *)

\* C8: a read() through a Readable Control view of channel n, made when the
\* last store into channel n was write(v) through a Writable Control view of
\* n, yields v.
C8_ControlRoundTrip ==
    (result.tag = "read" /\ lastWrite[views[result.view].name].set
        /\ lastWrite[views[result.view].name].by = "host")
        => result.val = lastWrite[views[result.view].name].v

\* C8, its case: a non-zero value written through a view of get_input_channel
\* has been read back through a view of get_output_channel of the same name
C8_Witness ==
    /\ result.tag = "read"
    /\ views[result.view].dir = "Readable"
    /\ lastWrite[views[result.view].name] = [set |-> TRUE, v |-> 7, by |-> "host"]
    /\ result.val = 7
    /\ \E i \in DOMAIN views :
           /\ views[i].dir = "Writable"
           /\ views[i].name = views[result.view].name

\* C9: two views acquired for the same channel name with the same content
\* kind and direction have the same base address and the same length.
C9_SameChannelSameView ==
    \A i \in DOMAIN views, j \in DOMAIN views :
        (/\ views[i].name = views[j].name
         /\ views[i].kind = views[j].kind
         /\ views[i].dir = views[j].dir)
            => /\ views[i].ptr = views[j].ptr
               /\ views[i].len = views[j].len

\* C10: get_input_channel / get_output_channel for a name whose channel exists
\* with another content kind gives an error that carries the existing kind,
\* gives no view, and leaves the engine's channel table and memory as they
\* were.
C10_KindConflictIsError ==
    [][(/\ result'.kind \in ChannelKinds
        /\ result'.name \in ChannelNames
        /\ engineChannels[result'.name].type # 0
        /\ engineChannels[result'.name].type # KindCode(result'.kind))
          => /\ result'.tag = "Err"
             /\ result'.status = [name |-> "CS_OK",
                                  v |-> engineChannels[result'.name].type]
             /\ views' = views
             /\ engineChannels' = engineChannels
             /\ memory' = memory]_vars

\* C10, its case: an acquisition was refused with the kind of the existing
\* channel, which a view acquired earlier still refers to
C10_Witness ==
    /\ result.tag = "Err"
    /\ result.status.name = "CS_OK"
    /\ \E i \in DOMAIN views, n \in ChannelNames :
           /\ views[i].name = n
           /\ engineChannels[n].type = result.status.v
           /\ KindCode(views[i].kind) = result.status.v


\* C11: get_input_channel / get_output_channel called with a name that is no
\* C string (an interior NUL) gives the caller an error result: it does not
\* panic and gives no view.
C11_InvalidNameIsError ==
    result.name = BadName
        => /\ result.tag = "Err"
           /\ \A i \in DOMAIN views : views[i].name # BadName

-----------------------------------------------------------------------------
(* Slice-form writes into engine regions *)

\* longest slice the host passes
MaxInput == 3

\* the slices the host passes: 7, 8, 9, ... cut at every length up to MaxInput
Ramp(n) == [k \in 1..n |-> 6 + k]
Inputs == {Ramp(n) : n \in 0..MaxInput}

\* the clamp every slice-form write starts with:
\* let mut len = inp.len(); if size < len { len = size; }
clamp(inp_len, size) == IF size < inp_len THEN size ELSE inp_len

\* std::ptr::copy(inp.as_ptr(), ptr, len) into the region at ptr: len elements
\* from index 0; a count beyond the region's end is an out-of-bounds write
ptr_copy(mem, ptr, inp, len) ==
    [mem |-> [mem EXCEPT ![ptr] =
                 [k \in 1..Len(@) |-> IF k <= len THEN inp[k] ELSE @[k]]],
     oob |-> len > Len(mem[ptr])]

\* what a slice-form write does to the state: region at ptr, limit size
SliceWrite(tag, i, ptr, inp, size) ==
    LET len == clamp(Len(inp), size)
        c   == ptr_copy(memory, ptr, inp, len)
    IN  /\ memory' = c.mem
        /\ result' = [NoResult EXCEPT !.tag = tag, !.view = i, !.val = len,
                                      !.data = inp, !.oob = c.oob]

\* get_input_buffer / get_spin: None on a null pointer, else a BufferPtr with
\* the engine-reported size (input buffer) or ksmps * nchnls_i (spin)
GetBuffer(which, len) ==
    /\ Len(views) < MaxViews
    /\ IF buffers[which] = 0
       THEN /\ result' = [NoResult EXCEPT !.tag = "None", !.name = which]
            /\ UNCHANGED views
       ELSE /\ views' = Append(views, [ptr |-> buffers[which], len |-> len,
                                       kind |-> "BUFFER", dir |-> "Writable",
                                       name |-> which])
            /\ result' = [NoResult EXCEPT !.tag = "Some", !.name = which,
                                          !.view = Len(views) + 1]
    /\ UNCHANGED <<engineChannels, memory, compiled, ksmps, lastWrite>>
    /\ UNCHANGED cbVars
    /\ UNCHANGED lifeVars
    /\ UNCHANGED bufVars

\* csoundGetInputBufferSize: samples in the input buffer
get_input_buffer_size == IF buffers.input = 0 THEN 0 ELSE Len(memory[buffers.input])

get_input_buffer == GetBuffer("input", get_input_buffer_size)

get_spin == GetBuffer("spin", ksmps * nchnls_i)

\* ChannelPtr<AudioChannel | StrChannel, Writable>::write(inp) through view i
write_slice(i, inp) ==
    /\ i \in 1..Len(views)
    /\ views[i].kind \in {"AUDIO", "STR"}
    /\ views[i].dir = "Writable"
    /\ SliceWrite("write_slice", i, views[i].ptr, inp, views[i].len)
    /\ UNCHANGED <<engineChannels, compiled, ksmps, views, lastWrite>>
    /\ UNCHANGED cbVars
    /\ UNCHANGED lifeVars
    /\ UNCHANGED bufVars

\* BufferPtr<Writable>::copy_from_slice(slice) through view i
copy_from_slice(i, slice) ==
    /\ i \in 1..Len(views)
    /\ views[i].kind = "BUFFER"
    /\ SliceWrite("copy_from_slice", i, views[i].ptr, slice, views[i].len)
    /\ UNCHANGED <<engineChannels, compiled, ksmps, views, lastWrite>>
    /\ UNCHANGED cbVars
    /\ UNCHANGED lifeVars
    /\ UNCHANGED bufVars

\* write_input_buffer / write_spin_buffer: Err on a null pointer, else the
\* clamped copy and Ok(len)
WriteBuffer(tag, which, input, size) ==
    /\ IF buffers[which] = 0
       THEN /\ result' = [NoResult EXCEPT !.tag = "Err", !.name = which]
            /\ UNCHANGED memory
       ELSE SliceWrite(tag, 0, buffers[which], input, size)
    /\ UNCHANGED <<engineChannels, compiled, ksmps, views, lastWrite>>
    /\ UNCHANGED cbVars
    /\ UNCHANGED lifeVars
    /\ UNCHANGED bufVars

write_input_buffer(input) ==
    WriteBuffer("write_input_buffer", "input", input, get_input_buffer_size)

write_spin_buffer(input) ==
    WriteBuffer("write_spin_buffer", "spin", input, ksmps * nchnls_i)

\* The engine's csoundSetAudioChannel: the audio channel name is looked up, or
\* created, and ksmps samples are copied into it from samples; an existing
\* channel of another type is left alone.  A slice shorter than ksmps is read
\* beyond its end.
csoundSetAudioChannel(chs, mem, name, samples) ==
    LET g == csoundGetChannelPtr(chs, mem, name,
                 CSOUND_AUDIO_CHANNEL + CSOUND_INPUT_CHANNEL, TRUE)
        n == clamp(Len(samples), ksmps)
    IN  IF g.status = CSOUND_SUCCESS
        THEN [chs |-> g.chs, mem |-> ptr_copy(g.mem, g.ptr, samples, n).mem,
              oob |-> Len(samples) < ksmps]
        ELSE [chs |-> g.chs, mem |-> g.mem, oob |-> FALSE]

\* write_audio_channel(name, input): CString::new(name).unwrap() and
\* assert!(size <= bytes) panic; otherwise the slice goes to the engine
write_audio_channel(name, input) ==
    LET size  == ksmps * nchnls_i
        bytes == Len(input)
        call  == [NoResult EXCEPT !.name = name, !.kind = "write_audio_channel",
                                  !.data = input, !.val = size]
    IN  /\ proc = "running"
        /\ dropPc = "alive"
        /\ IF name = BadName \/ ~(size <= bytes)
           THEN /\ result' = [call EXCEPT !.tag = "panic"]
                /\ UNCHANGED <<engineChannels, memory>>
           ELSE LET e == csoundSetAudioChannel(engineChannels, memory,
                                               name, input)
                IN  /\ engineChannels' = e.chs
                    /\ memory' = e.mem
                    /\ result' = [call EXCEPT !.tag = "Ok", !.oob = e.oob]
        /\ UNCHANGED <<compiled, ksmps, views, lastWrite>>
        /\ UNCHANGED cbVars
        /\ UNCHANGED lifeVars
        /\ UNCHANGED bufVars

\* the host's slice-form writes and buffer acquisitions
BufferNext ==
    \/ get_input_buffer
    \/ get_spin
    \/ \E i \in 1..MaxViews, inp \in Inputs : write_slice(i, inp)
    \/ \E i \in 1..MaxViews, inp \in Inputs : copy_from_slice(i, inp)
    \/ \E inp \in Inputs : write_input_buffer(inp)
    \/ \E inp \in Inputs : write_spin_buffer(inp)

\* compiling, and acquiring Writable channel views under valid names
AcquireNext ==
    \/ \E k \in KsmpsValues, c \in NchnlsValues, b \in BufferSizes :
           compile_csd(k, c, b)
    \/ \E n \in ChannelNames, C \in ChannelKinds : get_input_channel(n, C, TRUE)

\* A host that moves slices through channel views and the engine's buffers
BufferSpec == ChannelSpecInit /\ [][AcquireNext \/ BufferNext]_vars


\* the tags of the slice-form writes
SliceWriteTags ==
    {"write_slice", "copy_from_slice", "write_input_buffer", "write_spin_buffer"}

\* the region the call recorded in r wrote into
RegionOf(r) ==
    CASE r.tag = "write_input_buffer" -> buffers.input
      [] r.tag = "write_spin_buffer"  -> buffers.spin
      [] OTHER                        -> views[r.view].ptr

\* C12: every slice-form write into an engine region copies exactly
\* min(input.len(), region length) elements from index 0, leaves the region's
\* other elements and every other region as they were, and writes nothing
\* beyond the region's end.
C12_SliceWriteCopiesMin ==
    [][result'.tag \in SliceWriteTags
          => LET ptr    == RegionOf(result')
                 region == memory[ptr]
                 inp    == result'.data
                 n      == IF Len(inp) < Len(region) THEN Len(inp) ELSE Len(region)
             IN  /\ ~result'.oob
                 /\ result'.val = n
                 /\ memory'[ptr] = [k \in 1..Len(region) |->
                                       IF k <= n THEN inp[k] ELSE region[k]]
                 /\ \A q \in DOMAIN memory : q # ptr => memory'[q] = memory[q]]_vars

\* C12 with the view's own length (its len field, the size the call computes)
\* in place of the region's length: the clamp the code applies
C12_SliceWriteCopiesMinOfViewLen ==
    [][result'.tag \in SliceWriteTags
          => LET ptr    == RegionOf(result')
                 region == memory[ptr]
                 inp    == result'.data
                 size   == IF result'.view > 0 THEN views[result'.view].len
                           ELSE Len(region)
                 n      == IF Len(inp) < size THEN Len(inp) ELSE size
             IN  /\ ~result'.oob
                 /\ result'.val = n
                 /\ memory'[ptr] = [k \in 1..Len(region) |->
                                       IF k <= n THEN inp[k] ELSE region[k]]
                 /\ \A q \in DOMAIN memory : q # ptr => memory'[q] = memory[q]]_vars


-----------------------------------------------------------------------------
(* Life of an instance: message buffer, and Drop as the steps it makes *)

\* create_message_buffer: csoundCreateMessageBuffer, then the flag is set
create_message_buffer ==
    /\ dropPc = "alive"
    /\ proc = "running"
    /\ msgBuffer' = TRUE
    /\ use_msg_buffer' = TRUE
    /\ UNCHANGED <<dropPc, teardown, hostData, registry, frees>>
    /\ UNCHANGED <<cbVars, engineChannels, memory, compiled, ksmps, views,
                   result, lastWrite, bufVars>>

\* destroy_message_buffer: csoundDestroyMessageBuffer, then the flag is cleared
destroy_message_buffer ==
    /\ dropPc = "alive"
    /\ proc = "running"
    /\ msgBuffer' = FALSE
    /\ use_msg_buffer' = FALSE
    /\ UNCHANGED <<dropPc, teardown, hostData, registry, frees>>
    /\ UNCHANGED <<cbVars, engineChannels, memory, compiled, ksmps, views,
                   result, lastWrite, bufVars>>

\* one step of drop(): from position from to position to, logging step
DropStep(from, to, step) ==
    /\ dropPc = from
    /\ proc = "running"
    /\ dropPc' = to
    /\ teardown' = teardown \o step
    /\ UNCHANGED <<hostData, use_msg_buffer>>
    /\ UNCHANGED <<cbVars, engineChannels, memory, compiled, ksmps, views,
                   result, lastWrite, bufVars>>

\* csound_sys::csoundStop(self.engine.csound)
drop_csoundStop ==
    /\ DropStep("alive", "stopped", <<"csoundStop">>)
    /\ UNCHANGED <<registry, frees, msgBuffer>>

\* a faulty variant of drop_csoundCleanup: the engine cleanup is skipped
drop_csoundCleanup_skipped ==
    /\ DropStep("stopped", "cleaned", <<>>)
    /\ UNCHANGED <<registry, frees, msgBuffer>>

\* csound_sys::csoundCleanup(self.engine.csound)
drop_csoundCleanup ==
    /\ DropStep("stopped", "cleaned", <<"csoundCleanup">>)
    /\ UNCHANGED <<registry, frees, msgBuffer>>

\* a faulty variant of drop_reclaim_registry: the box is never rebuilt, the
\* registry leaks
drop_reclaim_registry_leaks ==
    /\ DropStep("cleaned", "reclaimed", <<>>)
    /\ UNCHANGED <<registry, frees, msgBuffer>>

\* let _ = Box::from_raw(csoundGetHostData(..) as *mut CallbackHandler):
\* the box is rebuilt from the host-data pointer and dropped at once
drop_reclaim_registry ==
    /\ DropStep("cleaned", "reclaimed", <<"Box::from_raw">>)
    /\ registry' = IF hostData = RegistryAddr THEN "freed" ELSE registry
    /\ frees' = frees + 1
    /\ UNCHANGED msgBuffer

\* a faulty variant of drop_message_buffer: the flag is not looked at
drop_message_buffer_always ==
    /\ DropStep("reclaimed", "buffer_done", <<"csoundDestroyMessageBuffer">>)
    /\ msgBuffer' = FALSE
    /\ UNCHANGED <<registry, frees>>

\* if *msg_buffer == true { csoundDestroyMessageBuffer(..) }
drop_message_buffer ==
    /\ DropStep("reclaimed", "buffer_done",
                IF use_msg_buffer THEN <<"csoundDestroyMessageBuffer">> ELSE <<>>)
    /\ msgBuffer' = IF use_msg_buffer THEN FALSE ELSE msgBuffer
    /\ UNCHANGED <<registry, frees>>

\* csound_sys::csoundDestroy(self.engine.csound)
drop_csoundDestroy ==
    /\ DropStep("buffer_done", "destroyed", <<"csoundDestroy">>)
    /\ UNCHANGED <<registry, frees, msgBuffer>>

\* impl Drop for Csound
drop ==
    \/ drop_csoundStop
    \/ drop_csoundCleanup
    \/ drop_reclaim_registry
    \/ drop_message_buffer
    \/ drop_csoundDestroy

\* A host that registers closures for one event kind, may use the message
\* buffer, and drops the instance
LifeSpecInit ==
    /\ callbacks = [s \in Slots |-> None]
    /\ installed = [k \in Kinds |-> 0]
    /\ lastReg = [k \in Kinds |-> None]
    /\ prevReg = [k \in Kinds |-> None]
    /\ nreg = 0
    /\ \E k \in Kinds : hostKinds = {k}
    /\ ObservedInit
    /\ ChannelInit

\* drop() is inside an engine call: csoundCleanup, csoundDestroyMessageBuffer
\* or csoundDestroy is the statement it makes next
InEngineCall ==
    \/ dropPc = "stopped"
    \/ dropPc = "reclaimed" /\ use_msg_buffer
    \/ dropPc = "buffer_done"

\* A read of the registry after Box::from_raw has dropped it is undefined: the
\* trampoline may find the memory as it was, or the process dies
use_after_free(kind) ==
    /\ proc = "running"
    /\ registry = "freed"
    /\ installed[kind] > 0
    /\ proc' = "crashed"
    /\ event' = kind
    /\ UNCHANGED <<callbacks, installed, lastReg, prevReg, nreg, hostKinds,
                   ret, calls, effect, intext>>
    /\ UNCHANGED chVars

\* The engine calls a trampoline it still holds from inside a call drop()
\* makes: it prints through the message trampoline and closes the audio
\* device through the rt-close trampoline.  drop() uninstalls nothing.
drop_engine_callback ==
    /\ InEngineCall
    /\ \/ OnMessage
       \/ OnRtClose
       \/ use_after_free("MESSAGE_CB")
       \/ use_after_free("RT_CLOSE_CB")

\* until drop() starts the instance is used as in Next
LifeNext ==
    \/ dropPc = "alive" /\ Registration
    \/ dropPc = "alive" /\ NativeEvent
    \/ create_message_buffer
    \/ destroy_message_buffer
    \/ drop
    \/ drop_engine_callback

LifeSpec == LifeSpecInit /\ [][LifeNext]_vars

-----------------------------------------------------------------------------
(* Teardown *)

\* the four steps of the teardown, in the order drop() makes them
DropOrder == <<"csoundStop", "csoundCleanup", "Box::from_raw", "csoundDestroy">>

IsDropStep(s) == \E i \in DOMAIN DropOrder : DropOrder[i] = s

\* the steps of DropOrder that the teardown has made so far
StepsDone == SelectSeq(teardown, IsDropStep)

\* C14: dropping an instance stops the performance, runs the engine cleanup,
\* reclaims the boxed registry and destroys the native handle, in this order
\* and each exactly once: at every moment the steps made are the first steps
\* of that order, and a finished drop has made all four.
C14_TeardownInOrder ==
    /\ Len(StepsDone) <= Len(DropOrder)
    /\ StepsDone = SubSeq(DropOrder, 1, Len(StepsDone))
    /\ dropPc = "destroyed" => StepsDone = DropOrder
    /\ dropPc = "alive" => teardown = <<>>

C14_Witness ==
    /\ dropPc = "destroyed"
    /\ nreg > 0
    /\ Len(teardown) = 5

PastReclaim == dropPc \in {"reclaimed", "buffer_done", "destroyed"}

\* C15: an instance has one registry for its whole life: the host-data pointer
\* is always the registry boxed at construction, closures are stored only
\* while that registry is still boxed, and the registry is freed exactly once,
\* by the reclaim step of drop() and at no other time.
C15_OneRegistryFreedOnce ==
    /\ [](/\ hostData = RegistryAddr
          /\ frees = IF PastReclaim THEN 1 ELSE 0
          /\ registry = IF PastReclaim THEN "freed" ELSE "boxed")
    /\ [][/\ callbacks' # callbacks => registry = "boxed"
          /\ registry' # registry => dropPc = "cleaned" /\ dropPc' = "reclaimed"]_vars

C15_Witness ==
    /\ registry = "freed"
    /\ frees = 1
    /\ nreg > 0
    /\ calls # <<>>

\* C19: drop() calls the engine's destroy-message-buffer exactly when a
\* message buffer exists at that moment, that is when the last of the
\* create_message_buffer / destroy_message_buffer calls was a create.
C19_DropDestroysExistingBuffer ==
    [][(dropPc = "reclaimed" /\ dropPc' = "buffer_done")
         => /\ (teardown' = teardown \o <<"csoundDestroyMessageBuffer">>) <=> msgBuffer
            /\ (teardown' = teardown) <=> ~msgBuffer
            /\ ~msgBuffer']_vars

C19_Witness ==
    /\ dropPc = "buffer_done"
    /\ teardown[Len(teardown)] = "csoundDestroyMessageBuffer"
    /\ ~msgBuffer

-----------------------------------------------------------------------------
(* Cancellation through yield *)

\* the last native event was a poll of a registered yield closure that came back
YieldAnswered ==
    /\ event = "YIELD_CB"
    /\ proc = "running"
    /\ calls # <<>>
    /\ calls[1].slot = "yield_cb"

\* C16: with a yield closure registered, the yield trampoline returns a
\* non-zero value exactly when the closure answers true and zero exactly when
\* it answers false; once the closure has answered false the engine has
\* stopped the operation and the next step is not another poll of the closure.
C16_YieldCancels ==
    [][/\ YieldAnswered'
            => /\ ret'.t = "int"
               /\ ret'.v # 0 <=> calls'[1].out
               /\ ret'.v = 0 <=> ~calls'[1].out
       /\ (YieldAnswered /\ ~calls[1].out)
            => ~(/\ event' = "YIELD_CB"
                 /\ nreg' = nreg
                 /\ (calls' # calls \/ ret' # ret \/ proc' # proc))]_vars

C16_Witness ==
    /\ YieldAnswered
    /\ ~calls[1].out
    /\ ret = IntRet(0)
    /\ nreg > 1

-----------------------------------------------------------------------------
(* CircularBuffer: read, peek and write *)

MaxItems == 4

\* csoundReadCircularBuffer / csoundPeekCircularBuffer /
\* csoundWriteCircularBuffer asked for items elements: the engine moves
\* between 0 and items of them, as many as the ring holds or has room for
csoundCircularBuffer(items) == 0..items

\* The body shared by read, peek and write: the guard answers Err without
\* calling the engine, otherwise the engine is called with items and moves n
\* elements from or to the start of the slice.
circular_transfer(op, slice, items, n) ==
    IF items <= Len(slice)
    THEN [tag |-> "Err", status |-> NoResult.status, view |-> 0, val |-> 0,
          name |-> op, kind |-> "CIRCULAR", data |-> slice, oob |-> FALSE,
          items |-> items, called |-> FALSE, asked |-> 0]
    ELSE [tag |-> "Ok", status |-> NoResult.status, view |-> 0, val |-> n,
          name |-> op, kind |-> "CIRCULAR", data |-> slice,
          oob |-> n > Len(slice),
          items |-> items, called |-> TRUE, asked |-> items]

CircularCall(op) ==
    /\ proc = "running"
    /\ dropPc = "alive"
    /\ \E slice \in Inputs, items \in 0..MaxItems :
         \E n \in csoundCircularBuffer(items) :
            result' = circular_transfer(op, slice, items, n)
    /\ UNCHANGED <<engineChannels, memory, compiled, ksmps, views, lastWrite>>
    /\ UNCHANGED cbVars
    /\ UNCHANGED lifeVars
    /\ UNCHANGED bufVars

\* CircularBuffer::read(out, items)
CircularBuffer_read == CircularCall("read")

\* CircularBuffer::peek(out, items)
CircularBuffer_peek == CircularCall("peek")

\* CircularBuffer::write(input, items)
CircularBuffer_write == CircularCall("write")

CircularNext ==
    \/ CircularBuffer_read
    \/ CircularBuffer_peek
    \/ CircularBuffer_write

CircularSpec == ChannelSpecInit /\ [][CircularNext]_vars

\* C17: read, peek and write answer an error exactly when the slice has fewer
\* than items elements; otherwise they call the engine with items, the engine
\* is never asked for more elements than the slice holds, and the count they
\* return is between 0 and items.
C17_CircularGuard ==
    result.kind = "CIRCULAR"
        => /\ result.tag = "Err" <=> result.items > Len(result.data)
           /\ result.tag = "Ok"
                => /\ result.called
                   /\ result.asked = result.items
                   /\ result.asked <= Len(result.data)
                   /\ 0 <= result.val /\ result.val <= result.items

-----------------------------------------------------------------------------
(* write_audio_channel *)

\* A host that compiles and writes slices into audio channels by name
AudioChannelNext ==
    \/ \E k \in KsmpsValues, c \in NchnlsValues, b \in BufferSizes :
           compile_csd(k, c, b)
    \/ \E n \in ChannelNames \cup {BadName}, inp \in Inputs :
           write_audio_channel(n, inp)

AudioChannelSpec == ChannelSpecInit /\ [][AudioChannelNext]_vars

\* C18: write_audio_channel(name, input) panics exactly when input.len() is
\* greater than ksmps; an input of at most ksmps samples does not panic and is
\* passed to the engine.
C18_WriteAudioPanicsWhenTooLong ==
    [][result'.kind = "write_audio_channel"
         => /\ result'.tag = "panic" <=> Len(result'.data) > ksmps
            /\ Len(result'.data) <= ksmps => result'.tag = "Ok"]_vars

-----------------------------------------------------------------------------
(* Installation of the trampolines *)

\* C20: the engine is told to install the trampoline of a kind only on the
\* first registration of the kind: however many closures were registered for
\* it, the engine holds exactly one installation of its trampoline, so one
\* native event of the kind causes exactly one closure invocation.
C20_OneInstallationPerKind ==
    \A k \in Kinds :
        /\ installed[k] <= 1
        /\ lastReg[k] # None => installed[k] = 1
        /\ (event = k /\ lastReg[k] # None /\ proc = "running"
                /\ intext # "nonutf8")
              => Len(calls) = 1

-----------------------------------------------------------------------------
(* Buffers handed to closures *)

\* the slots whose closures are handed a slice of an engine buffer
BufferSlots == {"rt_play_cb", "rt_rec_cb", "midi_read_cb", "midi_write_cb"}

\* C21: the slice the real-time play, real-time record, MIDI read and MIDI
\* write trampolines hand to the closure lies inside the buffer the engine
\* supplied: its extent in bytes never exceeds the size the engine passed
\* alongside the pointer.
C21_SliceInsideEngineBuffer ==
    \A i \in DOMAIN calls :
        calls[i].slot \in BufferSlots
            => calls[i].arg.extent <= calls[i].arg.nbytes

-----------------------------------------------------------------------------
(* Values stored through channelValuePtr *)

\* C22: when the channel-input closure returns a string, the trampoline writes
\* into the channel's buffer only if the string fits within the channel's data
\* size with room for the NUL terminator, and in every case writes at most
\* channel-data-size bytes.
C22_StringFitsChannel ==
    (event = "CHANNEL_INPUT_CB" /\ effect.what = "memcpy")
        => /\ effect.n + 1 <= effect.datasize
           /\ effect.n <= effect.datasize

-----------------------------------------------------------------------------
(* The channel-output trampoline *)

\* the type bits of what the engine answered to the last trampoline's query
LiveType == effect.n % (CSOUND_CHANNEL_TYPE_MASK + 1)

\* the values the last event's closure invocations were given
Presented == {calls[i].arg.text : i \in DOMAIN calls}

\* C23: the channel-output trampoline asks the engine for the live type of the
\* named channel, and invokes the registered closure exactly once with a
\* control value if and only if the live type is control, exactly once with a
\* string value if and only if it is string, and not at all for another type.
C23_OutputValueFollowsLiveType ==
    (event = "CHANNEL_OUTPUT_CB" /\ lastReg["CHANNEL_OUTPUT_CB"] # None
            /\ intext = "utf8")
        => /\ effect.what = "query"
           /\ Len(calls) <= 1
           /\ "CS_CONTROL_CHANNEL" \in Presented
                  <=> LiveType = CSOUND_CONTROL_CHANNEL
           /\ "CS_STRING_CHANNEL" \in Presented
                  <=> LiveType = CSOUND_STRING_CHANNEL
           /\ LiveType \notin {CSOUND_CONTROL_CHANNEL, CSOUND_STRING_CHANNEL}
                  <=> calls = <<>>

C23_Witness ==
    /\ event = "CHANNEL_OUTPUT_CB"
    /\ lastReg["CHANNEL_OUTPUT_CB"] # None
    /\ effect = [what |-> "query",
                 n |-> CSOUND_CONTROL_CHANNEL + CSOUND_OUTPUT_CHANNEL]
    /\ Len(calls) = 1
    /\ calls[1].arg.text = "CS_CONTROL_CHANNEL"

-----------------------------------------------------------------------------
(* get_audio_devices *)

MaxDevices == 2

\* the device lists an engine can hold, each device by its name
DeviceLists ==
    UNION {[1..n -> {"hw:0", "hw:1", "plughw"}] : n \in 0..MaxDevices}

\* CS_AUDIODEVICE::default(): empty strings
DefaultDevice == ""

\* csoundGetAudioDevList(csound, list, isOutput) on a list of cap entries: the
\* engine writes every device of the direction, the devices beyond cap land
\* outside the list; it answers the number of devices
csoundGetAudioDevList(devices, cap) ==
    [n    |-> Len(devices),
     list |-> [k \in 1..cap |-> IF k <= Len(devices) THEN devices[k]
                                ELSE DefaultDevice],
     oob  |-> Len(devices) > cap]

\* get_audio_devices on an engine with the input devices ins and the output
\* devices outs: both counts are asked with isOutput = 0
get_audio_devices(ins, outs) ==
    LET num_of_idevices == csoundGetAudioDevList(ins, 0).n
        num_of_odevices == csoundGetAudioDevList(ins, 0).n
        in_vec  == csoundGetAudioDevList(ins, num_of_idevices)
        out_vec == csoundGetAudioDevList(outs, num_of_odevices)
        call == [tag |-> "devices", status |-> NoResult.status, view |-> 0,
                 val |-> 0, name |-> "", kind |-> "get_audio_devices",
                 data |-> <<>>, oob |-> in_vec.oob \/ out_vec.oob,
                 engine_in |-> ins, engine_out |-> outs,
                 input_devices |-> in_vec.list,
                 output_devices |-> out_vec.list]
    IN  /\ proc = "running"
        /\ dropPc = "alive"
        \* a write outside out_vec is undefined: the call may come back with
        \* the vectors it has, or the process may die
        /\ \/ result' = call
           \/ /\ call.oob
              /\ result' = [call EXCEPT !.tag = "crash",
                                        !.input_devices = <<>>,
                                        !.output_devices = <<>>]
        /\ UNCHANGED <<engineChannels, memory, compiled, ksmps, views, lastWrite>>
        /\ UNCHANGED cbVars
        /\ UNCHANGED lifeVars
        /\ UNCHANGED bufVars

\* A host that lists the audio devices of engines with any device lists
DevicesSpec ==
    ChannelSpecInit
        /\ [][\E ins \in DeviceLists, outs \in DeviceLists :
                 get_audio_devices(ins, outs)]_vars

\* C24: get_audio_devices returns as its first element exactly the engine's
\* input devices and as its second exactly the engine's output devices: the
\* second list has as many entries as the engine has output devices, whatever
\* the number of input devices.
C24_DeviceListsPerDirection ==
    result.kind = "get_audio_devices"
        => /\ result.tag = "devices"
           /\ result.input_devices = result.engine_in
           /\ result.output_devices = result.engine_out
           /\ Len(result.output_devices) = Len(result.engine_out)

-----------------------------------------------------------------------------
(* Frame of a registration *)

\* C25: registering a closure for kind K changes only the registry slot of K,
\* which then holds the closure; the slots of all other kinds are as before.
\* In particular a rec-open registration leaves the play-open slot alone.
C25_RegistrationChangesOnlyItsSlot ==
    [][nreg' = nreg + 1
         => /\ \E k \in Kinds :
                 /\ \A j \in Kinds \ {k} : lastReg'[j] = lastReg[j]
                 /\ lastReg'[k] # None
                 /\ callbacks'[SlotOf(k)] = lastReg'[k]
                 /\ \A s \in Slots \ {SlotOf(k)} : callbacks'[s] = callbacks[s]
            /\ lastReg'["REC_OPEN"] # lastReg["REC_OPEN"]
                 => callbacks'["play_open_cb"] = callbacks["play_open_cb"]]_vars

-----------------------------------------------------------------------------
(* The registry after drop() has reclaimed it *)

\* C26: no trampoline reads the registry after drop() has reclaimed it: in
\* the engine calls drop() makes after the reclaim no trampoline runs, so
\* from a state with the registry freed no step is a native event.
C26_NoTrampolineAfterReclaim ==
    [][registry = "freed"
         => /\ event' = event
            /\ calls' = calls
            /\ ret' = ret
            /\ proc' = proc]_vars

-----------------------------------------------------------------------------
(* Registration while a closure runs *)

\* the closure the last event started has not come back yet
InProgress == calls # <<>> /\ ~calls[1].done

\* The engine runs the trampoline of kind: it borrows the closure out of the
\* slot (as_mut) and calls it; the closure is now running.
begin_invocation(kind) ==
    /\ proc = "running"
    /\ ~InProgress
    /\ installed[kind] > 0
    /\ callbacks[SlotOf(kind)] # None
    /\ event' = kind
    /\ calls' = <<[slot |-> SlotOf(kind), fn |-> callbacks[SlotOf(kind)],
                   arg |-> NoArg, panicked |-> FALSE,
                   done |-> FALSE, dropped |-> FALSE]>>
    /\ ret' = Void
    /\ effect' = NoEffect
    /\ intext' = "none"
    /\ UNCHANGED <<callbacks, installed, lastReg, prevReg, nreg, hostKinds, proc>>
    /\ UNCHANGED chVars

\* A registration method called through a shared reference while the closure
\* runs, by the running closure itself or by another thread: the assignment
\* `slot = Some(Box::new(f))` drops the box the slot held.  No lock or borrow
\* flag stands in the way.
register_while_running(callback_type, f) ==
    LET slot == IF callback_type = "REC_OPEN" THEN "play_open_cb"
                ELSE SlotOf(callback_type)
    IN  /\ proc = "running"
        /\ InProgress
        /\ nreg < MaxReg
        /\ callback_type \in hostKinds
        /\ callbacks' = [callbacks EXCEPT ![slot] = f]
        /\ installed' = enable_callback(installed, callback_type)
        /\ prevReg' = [prevReg EXCEPT ![callback_type] = lastReg[callback_type]]
        /\ lastReg' = [lastReg EXCEPT ![callback_type] = f]
        /\ nreg' = nreg + 1
        /\ calls' = [calls EXCEPT ![1].dropped = @ \/ calls[1].slot = slot]
        /\ UNCHANGED <<event, ret, effect, intext, proc, hostKinds>>
        /\ UNCHANGED chVars

\* The running closure comes back.  If its box was dropped under it, what it
\* did since is undefined: it comes back all the same, or the process dies.
end_invocation ==
    /\ proc = "running"
    /\ InProgress
    /\ \/ /\ calls' = [calls EXCEPT ![1].done = TRUE]
          /\ UNCHANGED proc
       \/ /\ calls[1].dropped
          /\ proc' = "crashed"
          /\ UNCHANGED calls
    /\ UNCHANGED <<callbacks, installed, lastReg, prevReg, nreg, hostKinds,
                   event, ret, effect, intext>>
    /\ UNCHANGED chVars

ReentryNext ==
    \/ ~InProgress /\ Registration
    \/ \E k \in Kinds : begin_invocation(k)
    \/ \E k \in Kinds, f \in Closures : register_while_running(k, f)
    \/ end_invocation

\* A host whose registrations interleave with running closures
ReentrySpec == LifeSpecInit /\ [][ReentryNext]_vars

\* C27: a closure held in a registry slot is never replaced or dropped while
\* an invocation of it is still in progress, whatever the interleaving of
\* registration calls with engine events.
C27_RunningClosureStaysInSlot ==
    InProgress
        => /\ ~calls[1].dropped
           /\ callbacks[calls[1].slot] = calls[1].fn

-----------------------------------------------------------------------------
(* reset() while the host holds views *)

\* regions the engine allocates in one run of the model
MaxRegions == 4

\* reset(): csoundReset frees the engine's buffers and channels and returns
\* the engine to its state before a compile.  It takes &self, so the views
\* the host holds stay in its hands, with the pointer and length they have.
reset ==
    /\ proc = "running"
    /\ dropPc = "alive"
    /\ compiled
    /\ Len(memory) < MaxRegions
    /\ memory' = [i \in DOMAIN memory |-> <<>>]
    /\ engineChannels' = [n \in ChannelNames |-> NoChannel]
    /\ lastWrite' = [n \in ChannelNames |-> NotWritten]
    /\ compiled' = FALSE
    /\ ksmps' = 1
    /\ nchnls_i' = 1
    /\ buffers' = NoBuffers
    /\ result' = [NoResult EXCEPT !.tag = "reset"]
    /\ UNCHANGED views
    /\ UNCHANGED cbVars
    /\ UNCHANGED lifeVars

\* A host that compiles, resets and compiles again while it uses the buffer
\* views it has acquired
StaleNext ==
    \/ \E k \in KsmpsValues, c \in NchnlsValues, b \in BufferSizes :
           compile_csd(k, c, b)
    \/ reset
    \/ get_spin
    \/ get_input_buffer
    \/ \E i \in 1..MaxViews, inp \in Inputs : copy_from_slice(i, inp)

StaleSpec == ChannelSpecInit /\ [][StaleNext]_vars

\* C28: while the instance is alive, an access through a view acquired
\* earlier touches only memory that belongs to the region it was acquired
\* from, whatever reset() and compile calls came in between.
C28_ViewAccessInsideRegion ==
    [][result'.tag = "copy_from_slice"
         => /\ ~result'.oob
            /\ result'.val <= Len(memory[views[result'.view].ptr])]_vars

-----------------------------------------------------------------------------
(* get_channel_ptr and ControlChannelPtr *)

\* get_channel_ptr(name, channel_type): the length is fixed from the type
\* bits (size_of::<f64>() for a control channel, ksmps for an audio channel,
\* Err for the others) and csoundGetChannelPtr is asked for the pointer
get_channel_ptr(name, channel_type) ==
    LET channel == channel_type % (CSOUND_CHANNEL_TYPE_MASK + 1)
        len == CASE channel = CSOUND_CONTROL_CHANNEL -> size_of_f64
                 [] channel = CSOUND_AUDIO_CHANNEL -> ksmps
                 [] OTHER -> 0
        r == csoundGetChannelPtr(engineChannels, memory, name, channel_type,
                                 TRUE)
        call == [NoResult EXCEPT !.name = name, !.kind = "get_channel_ptr"]
    IN  /\ proc = "running"
        /\ dropPc = "alive"
        /\ Len(views) < MaxViews
        /\ IF channel \notin {CSOUND_CONTROL_CHANNEL, CSOUND_AUDIO_CHANNEL}
           THEN /\ result' = [call EXCEPT !.tag = "Err",
                                          !.status = Status_from(CSOUND_ERROR)]
                /\ UNCHANGED <<engineChannels, memory, views>>
           ELSE /\ engineChannels' = r.chs
                /\ memory' = r.mem
                /\ IF r.status = CSOUND_SUCCESS
                   THEN /\ views' = Append(views,
                               [ptr |-> r.ptr, len |-> len, kind |-> "RAW",
                                dir |-> "ReadWrite", name |-> name])
                        /\ result' = [call EXCEPT !.tag = "Ok",
                                                  !.view = Len(views) + 1]
                   ELSE /\ result' = [call EXCEPT !.tag = "Err",
                                         !.status = Status_from(r.status)]
                        /\ UNCHANGED views
        /\ UNCHANGED <<compiled, ksmps, lastWrite>>
        /\ UNCHANGED cbVars
        /\ UNCHANGED lifeVars
        /\ UNCHANGED bufVars

\* ControlChannelPtr::read::<f64>(dest) through view i, dest of dest_len
\* elements: Err when self.len is 0, else copy_nonoverlapping of
\* min(dest.len(), self.len) elements out of the channel and Ok(len)
ControlChannelPtr_read(i, dest_len) ==
    /\ i \in 1..Len(views)
    /\ views[i].kind = "RAW"
    /\ LET len == clamp(dest_len, views[i].len)
           r   == from_raw_parts(memory, views[i].ptr, len)
       IN  result' = IF views[i].len = 0
                     THEN [NoResult EXCEPT !.tag = "Err", !.view = i,
                                           !.kind = "ControlChannelPtr"]
                     ELSE [NoResult EXCEPT !.tag = "Ok", !.view = i,
                                           !.kind = "ControlChannelPtr",
                                           !.val = len, !.data = r.data,
                                           !.oob = r.oob]
    /\ UNCHANGED <<engineChannels, memory, compiled, ksmps, views, lastWrite>>
    /\ UNCHANGED cbVars
    /\ UNCHANGED lifeVars
    /\ UNCHANGED bufVars

\* ControlChannelPtr::write::<f64>(src) through view i: Err when self.len is
\* 0, else copy_nonoverlapping of min(src.len(), self.len) elements into the
\* channel and Ok(len)
ControlChannelPtr_write(i, src) ==
    /\ i \in 1..Len(views)
    /\ views[i].kind = "RAW"
    /\ LET len == clamp(Len(src), views[i].len)
           c   == ptr_copy(memory, views[i].ptr, src, len)
       IN  IF views[i].len = 0
           THEN /\ result' = [NoResult EXCEPT !.tag = "Err", !.view = i,
                                              !.kind = "ControlChannelPtr"]
                /\ UNCHANGED memory
           ELSE /\ memory' = c.mem
                /\ result' = [NoResult EXCEPT !.tag = "Ok", !.view = i,
                                              !.kind = "ControlChannelPtr",
                                              !.val = len, !.data = src,
                                              !.oob = c.oob]
    /\ UNCHANGED <<engineChannels, compiled, ksmps, views, lastWrite>>
    /\ UNCHANGED cbVars
    /\ UNCHANGED lifeVars
    /\ UNCHANGED bufVars

\* A host that compiles, takes raw channel pointers and copies slices of f64
\* through them
RawSpec ==
    ChannelSpecInit
        /\ [][\/ \E k \in KsmpsValues, b \in BufferSizes : compile_csd(k, 1, b)
              \/ \E n \in ChannelNames, C \in ChannelKinds :
                    get_channel_ptr(n, KindCode(C) + CSOUND_INPUT_CHANNEL)
              \/ \E i \in 1..MaxViews, n \in 0..MaxInput :
                    ControlChannelPtr_read(i, n)
              \/ \E i \in 1..MaxViews, src \in Inputs :
                    ControlChannelPtr_write(i, src)]_vars

\* C29: read and write through a ControlChannelPtr never copy more data than
\* the channel's storage holds (one f64 for a control channel, ksmps for an
\* audio channel), whatever the caller's slice length, and return the number
\* of elements copied.
C29_RawCopyInsideChannel ==
    [][(result'.kind = "ControlChannelPtr" /\ result'.tag = "Ok")
         => LET v == views[result'.view]
                storage == IF engineChannels[v.name].type = CSOUND_CONTROL_CHANNEL
                           THEN 1 ELSE ksmps
            IN  /\ ~result'.oob
                /\ result'.val <= storage
                /\ result'.val <= Len(result'.data)]_vars

-----------------------------------------------------------------------------
(* the file-open notification *)

\* discriminants of the defined FileTypes variants, CSFTYPE_UNKNOWN through
\* CSFTYPE_OTHER_BINARY
CSFTYPE_UNKNOWN == 0
CSFTYPE_OTHER_BINARY == 64

\* C30: for every file-type code the engine passes to the file-open
\* trampoline, the closure sees the variant with that discriminant when the
\* code is one of 0 through 64 and CSFTYPE_UNKNOWN for every other integer;
\* is_writing and is_temp are true exactly when operation and isTemp are
\* non-zero.
C30_FileInfoFollowsCode ==
    (event = "FILE_OPEN_CB" /\ effect.what = "file_open")
        => \A i \in DOMAIN calls :
               /\ calls[i].arg.n =
                      (IF effect.n \in CSFTYPE_UNKNOWN..CSFTYPE_OTHER_BINARY
                       THEN effect.n ELSE CSFTYPE_UNKNOWN)
               /\ calls[i].arg.w = (effect.operation # 0)
               /\ calls[i].arg.t = (effect.isTemp # 0)

=============================================================================
